---- MODULE Spec2Model ----
(***************************************************************************)
(* Model of the Spyglasses Cloudflare Worker (src/src/spyglasses-worker.ts *)
(* and src/src/index.ts): the module-level pattern synchronisation         *)
(* (syncPatterns) and the request pipeline (SpyglassesWorker.handleRequest *)
(* with shouldProcessHostname, shouldExcludePath and forwardToOrigin).     *)
(*                                                                         *)
(* JavaScript runs one macrotask at a time and drains the continuations of *)
(* a settled promise before the next event, so every action below is one   *)
(* event (a call, or the settling of an awaited promise) together with the *)
(* code that runs up to the next await.                                    *)
(***************************************************************************)
EXTENDS Integers, Sequences, FiniteSets, TLC

(***************************************************************************)
(* Bounds of the model.                                                    *)
(***************************************************************************)
MaxCalls == 3
MaxTicks == 1
MaxRequests == 2
MaxPathLen == 1
MaxOverlap == 2

(***************************************************************************)
(* Program constants.                                                      *)
(***************************************************************************)
DefaultCacheTime == 3600
MsPerSecond == 1000
DefaultBlockingTimeout == 2000
KeyPrefixLen == 8
IndexCacheTime == 86400

VARIABLES
    clock,                \* Date.now(), in milliseconds
    lastPatternSyncTime,  \* module-level timestamp of the last sync, 0 = never
    patternSyncPromise,   \* module-level in-flight marker: 0 = null, else the call whose promise it holds
    cacheStore,           \* the record under the cache key in caches.default
    config,               \* SpyglassesWorkerConfig of the calls
    calls,                \* the syncPatterns invocations of this isolate
    promises,             \* state of the promise returned by spyglasses.syncPatterns() per call
    env,                  \* SpyglassesWorkerEnv: ORIGIN_URL
    patternSyncInitialized, \* SpyglassesWorker.patternSyncInitialized of the current worker
    lastIndex,            \* RegExp.lastIndex of each rule of config.excludePaths
    req,                  \* the request being handled by handleRequest
    handled,              \* number of handleRequest calls made so far
    refreshTasks          \* state of the promise syncPatterns(...).catch(...) handed to ctx.waitUntil, per call

syncVars == <<clock, lastPatternSyncTime, patternSyncPromise, cacheStore, calls, promises>>
reqVars == <<env, patternSyncInitialized, lastIndex, req, handled>>
vars == <<clock, lastPatternSyncTime, patternSyncPromise, cacheStore, config, calls, promises,
          env, patternSyncInitialized, lastIndex, req, handled, refreshTasks>>

Max(a, b) == IF a > b THEN a ELSE b
CallIds == 1..Max(MaxCalls, MaxRequests)
MaxTime == MsPerSecond * (1 + MaxTicks)

(***************************************************************************)
(* Cache records: {...dataset, timestamp}.  A record whose timestamp field *)
(* is missing is read as timestamp 0 by `cacheData.timestamp || 0`.        *)
(***************************************************************************)
NoRecord == [present |-> FALSE, timestamp |-> 0, patterns |-> FALSE]
Record(ts, pats) == [present |-> TRUE, timestamp |-> ts, patterns |-> pats]

CacheTimes == {0, 1}
\* config.apiKey, a string of characters: <<>> is a missing credential; the
\* two credentials differ in their last character only
Key1 == <<"s", "g", "_", "l", "i", "v", "e", "_", "1">>
Key2 == <<"s", "g", "_", "l", "i", "v", "e", "_", "2">>
ApiKeys == {<<>>, Key1}
Credentials == {Key1, Key2}

\* the cache key: `${PATTERNS_CACHE_KEY}-${config.apiKey?.substring(0, 8) || 'default'}`
cacheKey(apiKey) ==
    IF apiKey = <<>> THEN <<"default">>
    ELSE SubSeq(apiKey, 1, IF Len(apiKey) < KeyPrefixLen THEN Len(apiKey) ELSE KeyPrefixLen)

InitialRecords ==
    {NoRecord, Record(0, TRUE), Record(MsPerSecond, TRUE), Record(MsPerSecond, FALSE)}

\* (config.cacheTime || 3600) * 1000
cacheTimeMs(cfg) ==
    (IF cfg.cacheTime = 0 THEN DefaultCacheTime ELSE cfg.cacheTime) * MsPerSecond

\* spyglasses.hasApiKey(): the SDK instance was constructed with config.apiKey
hasApiKey(cfg) == cfg.apiKey # <<>>

\* lastPatternSyncTime && (now - lastPatternSyncTime) < cacheTimeMs
LocalFresh(last, now, cfg) == last # 0 /\ (now - last) < cacheTimeMs(cfg)

\* mutant: a record whose age equals the threshold still counts as fresh
CacheFresh_Inclusive(rec, now, cfg) == (now - rec.timestamp) <= cacheTimeMs(cfg)

\* cacheAge < cacheTimeMs, with cacheAge = now - (cacheData.timestamp || 0)
CacheFresh(rec, now, cfg) == (now - rec.timestamp) < cacheTimeMs(cfg)

(***************************************************************************)
(* One syncPatterns invocation: where it is suspended, the `now` it took,  *)
(* and what it has done (reads, fetches, puts, the record it read, how it  *)
(* left).                                                                  *)
(***************************************************************************)
IdleCall ==
    [pc |-> "idle", key |-> <<>>, now |-> 0, exit |-> "none", awaiting |-> 0,
     fetches |-> 0, reads |-> 0, puts |-> 0,
     matched |-> "none", record |-> NoRecord,
     staleAtStart |-> FALSE, concurrent |-> FALSE, freshDue |-> FALSE,
     expired |-> FALSE]

\* the calls made so far; what was observed when a call was made
\* (staleAtStart, concurrent, freshDue, expired) is kept for the call made last
EarlierCalls ==
    [d \in CallIds |-> [calls[d] EXCEPT !.staleAtStart = FALSE, !.concurrent = FALSE,
                                        !.freshDue = FALSE, !.expired = FALSE]]

AnyDone == \E c \in CallIds : calls[c].pc = "done"

\* the largest `now` of a finished refresh whose remote fetch returned a dataset
RECURSIVE MaxSyncedNow(_)
MaxSyncedNow(S) ==
    IF S = {} THEN 0
    ELSE LET c == CHOOSE x \in S : TRUE
             rest == MaxSyncedNow(S \ {c})
             mine == IF calls[c].pc = "done" /\ calls[c].exit = "synced"
                     THEN calls[c].now ELSE 0
         IN IF mine > rest THEN mine ELSE rest

\* mutant: the credential is not checked before the distributed cache is read
EnterSync_NoKeyCheck(c, cfg) ==
    LET now == clock
        base == [IdleCall EXCEPT !.now = now, !.key = cfg.apiKey,
                     !.staleAtStart = ~LocalFresh(lastPatternSyncTime, now, cfg),
                     !.concurrent = ~AnyDone,
                     !.freshDue = (MaxSyncedNow(CallIds) # 0
                                   /\ now - MaxSyncedNow(CallIds) < cacheTimeMs(cfg)),
                     !.expired = (MaxSyncedNow(CallIds) # 0
                                  /\ now - MaxSyncedNow(CallIds) >= cacheTimeMs(cfg))]
    IN  /\ calls[c].pc = "idle"
        /\ IF LocalFresh(lastPatternSyncTime, now, cfg)
           THEN calls' = [EarlierCalls EXCEPT ![c] = [base EXCEPT !.pc = "done", !.exit = "localHit"]]
           ELSE IF patternSyncPromise # 0
           THEN IF promises[patternSyncPromise] = "pending"
                THEN calls' = [EarlierCalls EXCEPT ![c] =
                                 [base EXCEPT !.pc = "waiting", !.awaiting = patternSyncPromise]]
                ELSE calls' = [EarlierCalls EXCEPT ![c] =
                                 [base EXCEPT !.pc = "done", !.exit = "waited",
                                              !.awaiting = patternSyncPromise]]
           ELSE calls' = [EarlierCalls EXCEPT ![c] = [base EXCEPT !.pc = "cacheMatch", !.reads = 1]]
        /\ UNCHANGED <<clock, lastPatternSyncTime, patternSyncPromise, cacheStore, promises>>

(***************************************************************************)
(* syncPatterns, from the call to its first await (lines 33-69).           *)
(***************************************************************************)
EnterSync(c, cfg) ==
    LET now == clock
        base == [IdleCall EXCEPT !.now = now, !.key = cfg.apiKey,
                     !.staleAtStart = ~LocalFresh(lastPatternSyncTime, now, cfg),
                     !.concurrent = ~AnyDone,
                     !.freshDue = (MaxSyncedNow(CallIds) # 0
                                   /\ now - MaxSyncedNow(CallIds) < cacheTimeMs(cfg)),
                     !.expired = (MaxSyncedNow(CallIds) # 0
                                  /\ now - MaxSyncedNow(CallIds) >= cacheTimeMs(cfg))]
    IN  /\ calls[c].pc = "idle"
        /\ IF LocalFresh(lastPatternSyncTime, now, cfg)
           THEN calls' = [EarlierCalls EXCEPT ![c] = [base EXCEPT !.pc = "done", !.exit = "localHit"]]
           ELSE IF patternSyncPromise # 0
           THEN IF promises[patternSyncPromise] = "pending"
                THEN calls' = [EarlierCalls EXCEPT ![c] =
                                 [base EXCEPT !.pc = "waiting", !.awaiting = patternSyncPromise]]
                ELSE \* the marker holds a promise that is already fulfilled
                     calls' = [EarlierCalls EXCEPT ![c] =
                                 [base EXCEPT !.pc = "done", !.exit = "waited",
                                              !.awaiting = patternSyncPromise]]
           ELSE IF ~hasApiKey(cfg)
           THEN calls' = [EarlierCalls EXCEPT ![c] = [base EXCEPT !.pc = "done", !.exit = "noKey"]]
           ELSE calls' = [EarlierCalls EXCEPT ![c] = [base EXCEPT !.pc = "cacheMatch", !.reads = 1]]
        /\ UNCHANGED <<clock, lastPatternSyncTime, patternSyncPromise, cacheStore, promises>>

(***************************************************************************)
(* The refresh handed to ctx.waitUntil (lines 212-220).                    *)
(***************************************************************************)
\* the promise of the async function syncPatterns: the await of a shared
\* fetch promise (line 51) is outside the try block, every other failure is
\* caught inside it
SyncPromise(call) ==
    IF call.pc = "idle" THEN "none"
    ELSE IF call.pc # "done" THEN "pending"
    ELSE IF call.exit = "waitRejected" THEN "rejected"
    ELSE "fulfilled"

\* mutant: syncPatterns(...) is handed to ctx.waitUntil without the .catch
SettleRefresh_NoCatch(tasks) ==
    [c \in CallIds |->
        IF tasks[c] = "pending" /\ SyncPromise(calls'[c]) # "pending"
        THEN SyncPromise(calls'[c])
        ELSE tasks[c]]

\* syncPatterns(...).catch(handler): when the promise of a call settles in
\* this step, the reaction of .catch runs before the next event; the handler
\* only logs, so the promise handed to ctx.waitUntil is fulfilled either way
SettleRefresh(tasks) ==
    [c \in CallIds |->
        IF tasks[c] = "pending" /\ SyncPromise(calls'[c]) # "pending"
        THEN "fulfilled"
        ELSE tasks[c]]

\* a syncPatterns call is made (the calls are numbered in the order they are
\* made); the first MaxOverlap calls may be made while earlier ones are
\* suspended, the later ones are made when no call is suspended
StartCall(c) ==
    /\ c <= MaxCalls
    /\ c > MaxOverlap => \A d \in CallIds : calls[d].pc \in {"idle", "done"}
    /\ \A d \in CallIds : d < c => calls[d].pc # "idle"
    /\ EnterSync(c, config)
    /\ UNCHANGED <<config, reqVars, refreshTasks>>

\* a syncPatterns call is made by a worker constructed with the credential
\* apiKey; cacheStore is the record under the cache key of config.apiKey
StartCallAs(c, apiKey) ==
    /\ c <= MaxCalls
    /\ \A d \in CallIds : d < c => calls[d].pc # "idle"
    /\ cacheKey(apiKey) = cacheKey(config.apiKey)
    /\ EnterSync(c, [config EXCEPT !.apiKey = apiKey])
    /\ UNCHANGED <<config, reqVars, refreshTasks>>

\* the catch and the finally of syncPatterns after a failed cache read
\* (lines 147-155)
CacheReadFailed(c) ==
    /\ calls' = [calls EXCEPT ![c].pc = "done", ![c].exit = "cacheError",
                              ![c].matched = "error"]
    /\ patternSyncPromise' = 0
    /\ UNCHANGED <<lastPatternSyncTime, promises>>

\* patternSyncPromise = spyglasses.syncPatterns() (line 99), on the record rec
\* (NoRecord when cache.match found none)
StartRemoteFetch(c, rec) ==
    /\ calls' = [calls EXCEPT ![c].pc = "fetching", ![c].fetches = @ + 1,
                              ![c].matched = "read", ![c].record = rec]
    /\ patternSyncPromise' = c
    /\ promises' = [promises EXCEPT ![c] = "pending"]
    /\ UNCHANGED lastPatternSyncTime

\* mutant: a failed cache.match is treated as a miss
CacheMatchSettle_FallThrough(c, ok) ==
    /\ calls[c].pc = "cacheMatch"
    /\ IF ~ok
       THEN /\ calls' = [calls EXCEPT ![c].pc = "fetching", ![c].fetches = @ + 1,
                                      ![c].matched = "error"]
            /\ patternSyncPromise' = c
            /\ promises' = [promises EXCEPT ![c] = "pending"]
            /\ UNCHANGED lastPatternSyncTime
       ELSE IF cacheStore.present
       THEN /\ calls' = [calls EXCEPT ![c].pc = "cacheJson", ![c].record = cacheStore]
            /\ UNCHANGED <<lastPatternSyncTime, patternSyncPromise, promises>>
       ELSE StartRemoteFetch(c, NoRecord)
    /\ UNCHANGED <<clock, cacheStore, config, reqVars>>
    /\ refreshTasks' = SettleRefresh(refreshTasks)

(***************************************************************************)
(* cache.match settles (line 69).  With a record the call holds the        *)
(* Response of the record as it is now and awaits its body (line 71);      *)
(* without one it goes on to the remote fetch (lines 89-101).              *)
(***************************************************************************)
CacheMatchSettle(c, ok) ==
    /\ calls[c].pc = "cacheMatch"
    /\ IF ~ok
       THEN CacheReadFailed(c)
       ELSE IF cacheStore.present
       THEN /\ calls' = [calls EXCEPT ![c].pc = "cacheJson", ![c].record = cacheStore]
            /\ UNCHANGED <<lastPatternSyncTime, patternSyncPromise, promises>>
       ELSE StartRemoteFetch(c, NoRecord)
    /\ UNCHANGED <<clock, cacheStore, config, reqVars>>
    /\ refreshTasks' = SettleRefresh(refreshTasks)

\* mutant: a fresh record always sets the local timestamp
CacheJsonSettle_AlwaysStamp(c, ok) ==
    /\ calls[c].pc = "cacheJson"
    /\ IF ~ok
       THEN CacheReadFailed(c)
       ELSE IF CacheFresh(calls[c].record, calls[c].now, config)
       THEN /\ calls' = [calls EXCEPT ![c].pc = "done", ![c].exit = "cacheHit",
                                      ![c].matched = "read"]
            /\ lastPatternSyncTime' = calls[c].now
            /\ patternSyncPromise' = 0
            /\ UNCHANGED promises
       ELSE StartRemoteFetch(c, calls[c].record)
    /\ UNCHANGED <<clock, cacheStore, config, reqVars>>
    /\ refreshTasks' = SettleRefresh(refreshTasks)

(***************************************************************************)
(* cachedResponse.json() settles (lines 71-101): the record the Response   *)
(* carries is decoded and its age decides.                                 *)
(***************************************************************************)
CacheJsonSettle(c, ok) ==
    /\ calls[c].pc = "cacheJson"
    /\ IF ~ok
       THEN \* the body is not JSON, or reading it fails: catch, finally
            CacheReadFailed(c)
       ELSE IF CacheFresh(calls[c].record, calls[c].now, config)
       THEN /\ calls' = [calls EXCEPT ![c].pc = "done", ![c].exit = "cacheHit",
                                      ![c].matched = "read"]
            /\ lastPatternSyncTime' =
                   IF calls[c].record.patterns THEN calls[c].now ELSE lastPatternSyncTime
            /\ patternSyncPromise' = 0
            /\ UNCHANGED promises
       ELSE StartRemoteFetch(c, calls[c].record)
    /\ UNCHANGED <<clock, cacheStore, config, reqVars>>
    /\ refreshTasks' = SettleRefresh(refreshTasks)

\* mutant: the marker is cleared after the result is handled, not in a
\* finally, so a rejected fetch leaves it set
FetchSettle_NoFinally(c, outcome) ==
    /\ calls[c].pc = "fetching"
    /\ promises' = [promises EXCEPT ![c] = outcome]
    /\ calls' = [d \in CallIds |->
          IF d = c
          THEN IF outcome = "dataset"
               THEN [calls[d] EXCEPT !.pc = "cachePut", !.puts = @ + 1]
               ELSE IF outcome = "warning"
               THEN [calls[d] EXCEPT !.pc = "done", !.exit = "warning"]
               ELSE [calls[d] EXCEPT !.pc = "done", !.exit = "fetchFailed"]
          ELSE IF calls[d].pc = "waiting" /\ calls[d].awaiting = c
          THEN [calls[d] EXCEPT !.pc = "done",
                    !.exit = IF outcome = "rejected" THEN "waitRejected" ELSE "waited"]
          ELSE calls[d]]
    /\ lastPatternSyncTime' =
          IF outcome = "warning" THEN calls[c].now ELSE lastPatternSyncTime
    /\ patternSyncPromise' =
          IF outcome = "warning" THEN 0 ELSE patternSyncPromise
    /\ UNCHANGED <<clock, cacheStore, config, reqVars>>
    /\ refreshTasks' = SettleRefresh(refreshTasks)

\* mutant: the result is cached without the test for a warning string
FetchSettle_CacheWarning(c, outcome) ==
    /\ calls[c].pc = "fetching"
    /\ promises' = [promises EXCEPT ![c] = outcome]
    /\ calls' = [d \in CallIds |->
          IF d = c
          THEN IF outcome \in {"dataset", "warning"}
               THEN [calls[d] EXCEPT !.pc = "cachePut", !.puts = @ + 1]
               ELSE [calls[d] EXCEPT !.pc = "done", !.exit = "fetchFailed"]
          ELSE IF calls[d].pc = "waiting" /\ calls[d].awaiting = c
          THEN [calls[d] EXCEPT !.pc = "done",
                    !.exit = IF outcome = "rejected" THEN "waitRejected" ELSE "waited"]
          ELSE calls[d]]
    /\ UNCHANGED lastPatternSyncTime
    /\ patternSyncPromise' =
          IF outcome = "rejected" THEN 0 ELSE patternSyncPromise
    /\ UNCHANGED <<clock, cacheStore, config, reqVars>>
    /\ refreshTasks' = SettleRefresh(refreshTasks)

(***************************************************************************)
(* The promise of spyglasses.syncPatterns() settles (lines 101-155); the   *)
(* callers that awaited patternSyncPromise (line 51) resume with it.       *)
(***************************************************************************)
FetchOutcomes == {"dataset", "warning", "rejected"}

FetchSettle(c, outcome) ==
    /\ calls[c].pc = "fetching"
    /\ promises' = [promises EXCEPT ![c] = outcome]
    /\ calls' = [d \in CallIds |->
          IF d = c
          THEN IF outcome = "dataset"
               THEN [calls[d] EXCEPT !.pc = "cachePut", !.puts = @ + 1]
               ELSE IF outcome = "warning"
               THEN [calls[d] EXCEPT !.pc = "done", !.exit = "warning"]
               ELSE [calls[d] EXCEPT !.pc = "done", !.exit = "fetchFailed"]
          ELSE IF calls[d].pc = "waiting" /\ calls[d].awaiting = c
          THEN [calls[d] EXCEPT !.pc = "done",
                    !.exit = IF outcome = "rejected" THEN "waitRejected" ELSE "waited"]
          ELSE calls[d]]
    /\ lastPatternSyncTime' =
          IF outcome = "warning" THEN calls[c].now ELSE lastPatternSyncTime
    /\ patternSyncPromise' =
          IF outcome = "dataset" THEN patternSyncPromise ELSE 0
    /\ UNCHANGED <<clock, cacheStore, config, reqVars>>
    /\ refreshTasks' = SettleRefresh(refreshTasks)

\* mutant: a failed cache.put is not caught, so the call leaves through the
\* outer catch without updating the timestamp
CachePutSettle_Propagate(c, ok) ==
    /\ calls[c].pc = "cachePut"
    /\ cacheStore' = IF ok THEN Record(calls[c].now, TRUE) ELSE cacheStore
    /\ lastPatternSyncTime' = IF ok THEN calls[c].now ELSE lastPatternSyncTime
    /\ patternSyncPromise' = 0
    /\ calls' = [calls EXCEPT ![c].pc = "done",
                              ![c].exit = IF ok THEN "synced" ELSE "fetchFailed"]
    /\ UNCHANGED <<clock, promises, config, reqVars>>
    /\ refreshTasks' = SettleRefresh(refreshTasks)

(***************************************************************************)
(* cache.put settles (lines 133-155).                                      *)
(***************************************************************************)
CachePutSettle(c, ok) ==
    /\ calls[c].pc = "cachePut"
    /\ cacheStore' = IF ok THEN Record(calls[c].now, TRUE) ELSE cacheStore
    /\ lastPatternSyncTime' = calls[c].now
    /\ patternSyncPromise' = 0
    /\ calls' = [calls EXCEPT ![c].pc = "done", ![c].exit = "synced"]
    /\ UNCHANGED <<clock, promises, config, reqVars>>
    /\ refreshTasks' = SettleRefresh(refreshTasks)

\* the exported _resetPatternCache() is called (lines 481-484)
resetPatternCache ==
    /\ patternSyncPromise' = 0
    /\ lastPatternSyncTime' = 0
    /\ UNCHANGED <<clock, cacheStore, config, calls, promises, reqVars, refreshTasks>>

\* time passes
Tick ==
    /\ clock < MaxTime
    /\ clock' = clock + MsPerSecond
    /\ UNCHANGED <<lastPatternSyncTime, patternSyncPromise, cacheStore, config, calls,
                   promises, reqVars, refreshTasks>>

(***************************************************************************)
(* Strings.  A hostname or a path is a sequence of characters; an origin   *)
(* authority is a sequence of tokens: an optional scheme prefix, the       *)
(* characters of the host and an optional port suffix.  <<>> is the empty  *)
(* (or missing) string.                                                    *)
(***************************************************************************)
Lower(ch) == CASE ch = "A" -> "a" [] ch = "B" -> "b" [] OTHER -> ch
toLowerCase(s) == [i \in DOMAIN s |-> Lower(s[i])]

SchemeTokens == {"http://", "https://"}
PortTokens == {":8080", ":443"}
HostChars == {"a", "A", "b", "B"}

startsWith(s, t) == Len(s) >= 1 /\ s[1] = t

\* mutant: no scheme is prefixed to a scheme-less authority
normalizeOriginUrl_NoPrefix(originUrl) == originUrl

\* SpyglassesWorker.normalizeOriginUrl
normalizeOriginUrl(originUrl) ==
    IF ~startsWith(originUrl, "http://") /\ ~startsWith(originUrl, "https://")
    THEN <<"https://">> \o originUrl
    ELSE originUrl

\* the port of a scheme, which a URL never shows
DefaultPort(protocol) == IF protocol = "http:" THEN ":80" ELSE ":443"

\* new URL(text): fails on a missing scheme, an empty host or a character
\* that a host cannot hold; the parsed hostname is in lower case
ParseURL(u) ==
    LET hasPort == Len(u) >= 2 /\ u[Len(u)] \in PortTokens
        host == SubSeq(u, 2, IF hasPort THEN Len(u) - 1 ELSE Len(u))
        ok == /\ Len(u) >= 2
              /\ u[1] \in SchemeTokens
              /\ host # <<>>
              /\ \A i \in DOMAIN host : host[i] \in HostChars
        protocol == IF ok THEN (IF u[1] = "http://" THEN "http:" ELSE "https:") ELSE ""
    IN  [ok |-> ok,
         protocol |-> protocol,
         hostname |-> IF ok THEN toLowerCase(host) ELSE <<>>,
         port |-> IF ok /\ hasPort /\ u[Len(u)] # DefaultPort(protocol)
                  THEN u[Len(u)] ELSE ""]

\* the setters of URL (lines 416-418).  url.port = p: the empty string and
\* the default port of the present scheme both leave the URL without a port
SetHostname(url, hostname) == [url EXCEPT !.hostname = hostname]
SetPort(url, port) ==
    [url EXCEPT !.port = IF port = DefaultPort(url.protocol) THEN "" ELSE port]
\* url.protocol = p: a port that is the default of the new scheme is dropped
SetProtocol(url, protocol) ==
    [url EXCEPT !.protocol = protocol,
                !.port = IF @ = DefaultPort(protocol) THEN "" ELSE @]

\* the port a request to the URL is sent to
EffectivePort(url) == IF url.port = "" THEN DefaultPort(url.protocol) ELSE url.port

\* mutant: every hostname is processed once the origin authority parses
shouldProcessHostname_AnyHost(requestHostname, originUrl) ==
    ParseURL(normalizeOriginUrl(originUrl)).ok

\* SpyglassesWorker.shouldProcessHostname
shouldProcessHostname(requestHostname, originUrl) ==
    LET originURL == ParseURL(normalizeOriginUrl(originUrl))
    IN  IF originURL.ok
        THEN toLowerCase(requestHostname) = toLowerCase(originURL.hostname)
        ELSE FALSE

(***************************************************************************)
(* Exclusion rules: a string, or a RegExp of the form /text/ or /^text/    *)
(* with or without the g flag.  A RegExp with the g flag keeps lastIndex.  *)
(***************************************************************************)
Str(t) == [kind |-> "string", text |-> t, anchored |-> FALSE, global |-> FALSE]
Rx(t, anch, g) == [kind |-> "regexp", text |-> t, anchored |-> anch, global |-> g]

\* text occurs in path at the 0-based offset i
OccursAt(text, path, i) ==
    /\ i + Len(text) <= Len(path)
    /\ \A k \in 1..Len(text) : path[i + k] = text[k]

\* String.prototype.includes
includes(path, text) == \E i \in 0..Len(path) : OccursAt(text, path, i)

\* RegExp.prototype.test: the result and the lastIndex it leaves
test(rule, path, li) ==
    LET start == IF rule.global THEN li ELSE 0
        found == {i \in start..Len(path) :
                     OccursAt(rule.text, path, i) /\ (rule.anchored => i = 0)}
    IN  IF found = {}
        THEN [result |-> FALSE, lastIndex |-> IF rule.global THEN 0 ELSE li]
        ELSE LET first == CHOOSE i \in found : \A j \in found : i <= j
             IN  [result |-> TRUE,
                  lastIndex |-> IF rule.global THEN first + Len(rule.text) ELSE li]

\* SpyglassesWorker.shouldExcludePath: Array.prototype.some stops at the
\* first rule that matches
RECURSIVE excludeFrom(_, _, _, _)
excludeFrom(k, path, rules, li) ==
    IF k > Len(rules)
    THEN [excluded |-> FALSE, lastIndex |-> li]
    ELSE IF rules[k].kind = "string"
    THEN IF includes(path, rules[k].text)
         THEN [excluded |-> TRUE, lastIndex |-> li]
         ELSE excludeFrom(k + 1, path, rules, li)
    ELSE LET t == test(rules[k], path, li[k])
             li2 == [li EXCEPT ![k] = t.lastIndex]
         IN  IF t.result
             THEN [excluded |-> TRUE, lastIndex |-> li2]
             ELSE excludeFrom(k + 1, path, rules, li2)

shouldExcludePath(path, rules, li) == excludeFrom(1, path, rules, li)

(***************************************************************************)
(* Inputs of the request pipeline.                                         *)
(***************************************************************************)
RECURSIVE SeqsUpTo(_, _)
SeqsUpTo(S, n) ==
    IF n = 0 THEN {<<>>}
    ELSE LET shorter == SeqsUpTo(S, n - 1)
         IN  shorter \cup {Append(t, x) : t \in shorter, x \in S}

PathChars == {"a", "b"}
\* url.pathname always starts with "/"
Paths == {<<"/">> \o t : t \in SeqsUpTo(PathChars, MaxPathLen)}
Hostnames == {<<"a">>, <<"A">>, <<"b">>}

\* what spyglasses.detect may return
Detections ==
    {[sourceType |-> "none", shouldBlock |-> FALSE]}
        \cup [sourceType : {"bot", "ai_referrer"}, shouldBlock : BOOLEAN]

ExcludeLists ==
    { <<>>,
      <<Str(<<"/", "a">>)>>,
      <<Rx(<<"b">>, FALSE, FALSE)>>,
      <<Rx(<<"/", "b">>, TRUE, FALSE)>>,
      <<Str(<<"b">>), Rx(<<"a">>, FALSE, TRUE)>> }

\* config.originUrl and env.ORIGIN_URL
Origins ==
    { <<(<<>>), (<<>>)>>,
      <<(<<>>), (<<"a">>)>>,
      <<(<<>>), (<<"http://", "b", ":443">>)>>,
      <<(<<"https://", "A", ":8080">>), (<<"http://", "b", ":443">>)>>,
      <<(<<"https://">>), (<<"a">>)>> }
OriginStatuses == {200, 404, 502}
\* the response of the origin: its status and the names of its headers
OriginResponses ==
    { [status |-> 200, headers |-> {}],
      [status |-> 200, headers |-> {"cache-control"}],
      [status |-> 404, headers |-> {}],
      [status |-> 502, headers |-> {"cache-control"}] }
\* the origin fetch rejects
TransportFailure == [status |-> 0, headers |-> {}]

\* request.url: the scheme only takes part in the rewrite of the target, so
\* the second scheme is combined with the root path and the lower-case hosts
Schemes == {"http:", "https:"}
InboundUrls ==
    {u \in [scheme : Schemes, host : Hostnames, path : Paths] :
        u.scheme = "https:" \/ (u.path = <<"/">> /\ u.host # <<"A">>)}

\* The exclusion rules act before detect is called and the logging options
\* after it, so the rule lists are combined with the default logging options
\* and the logging options with the empty rule list; the rule lists and the
\* timeouts are combined with the origin authorities that env.ORIGIN_URL names.
ReqConfigs ==
    {cfg \in [apiKey : ApiKeys, cacheTime : {1}, originUrl : {o[1] : o \in Origins},
              excludePaths : ExcludeLists, blockingTimeout : {0, 1000},
              awaitBlockedLogging : {"unset", "true", "false"}] :
        \/ /\ cfg.excludePaths = <<>>
           /\ cfg.blockingTimeout # 0 => (cfg.apiKey # <<>> /\ cfg.originUrl = <<>>)
        \/ /\ cfg.awaitBlockedLogging = "unset" /\ cfg.blockingTimeout = 0
           /\ cfg.originUrl = <<>>}

SyncConfigs ==
    [apiKey : ApiKeys, cacheTime : CacheTimes, originUrl : {<<>>},
     excludePaths : {<<>>}, blockingTimeout : {0},
     awaitBlockedLogging : {"unset"}]

NoDetection == [sourceType |-> "none", shouldBlock |-> FALSE]
NoTarget == [protocol |-> "", hostname |-> <<>>, port |-> "", path |-> <<>>]

IdleReq ==
    [pc |-> "idle", scheme |-> "", host |-> <<>>, path |-> <<>>, det |-> NoDetection,
     gate |-> "none", syncRegistered |-> FALSE,
     detectCalls |-> 0, logCalls |-> 0, logStatus |-> 0, logVia |-> "none",
     log |-> "none", timer |-> "none", race |-> "none", timeoutMs |-> 0,
     logTask |-> "none",
     forwardCalls |-> 0, originFetches |-> 0, origin |-> "none", target |-> NoTarget,
     originStatus |-> 0, originHeaders |-> {},
     status |-> 0, body |-> "", headers |-> {},
     processed |-> FALSE, blocked |-> FALSE, reason |-> ""]

\* new URL(request.url)
RequestUrl(r) ==
    [protocol |-> r.scheme, hostname |-> toLowerCase(r.host), port |-> "", path |-> r.path]

\* the target of the forwarded request (lines 411-418)
rewrite(url, originURL) ==
    SetProtocol(SetPort(SetHostname(url, originURL.hostname), originURL.port),
                originURL.protocol)

\* this.config.originUrl || env.ORIGIN_URL
OriginUrl == IF config.originUrl # <<>> THEN config.originUrl ELSE env

\* mutant: the missing origin authority is not checked before the rewrite
forwardToOrigin_Unchecked(r) ==
    LET r1 == [r EXCEPT !.forwardCalls = @ + 1]
        originURL == ParseURL(normalizeOriginUrl(OriginUrl))
    IN  IF ~originURL.ok
        THEN [r1 EXCEPT !.pc = "done", !.status = 502,
                        !.body = "Error forwarding request"]
        ELSE [r1 EXCEPT !.pc = "awaitOrigin", !.originFetches = @ + 1,
                        !.origin = "pending",
                        !.target = rewrite(RequestUrl(r), originURL)]

(***************************************************************************)
(* SpyglassesWorker.forwardToOrigin up to `await fetch` (lines 399-428).   *)
(***************************************************************************)
forwardToOrigin(r) ==
    LET r1 == [r EXCEPT !.forwardCalls = @ + 1]
    IN  IF OriginUrl = <<>>
        THEN [r1 EXCEPT !.pc = "done", !.status = 500,
                        !.body = "Origin URL not configured"]
        ELSE LET originURL == ParseURL(normalizeOriginUrl(OriginUrl))
             IN  IF ~originURL.ok
                 THEN [r1 EXCEPT !.pc = "done", !.status = 502,
                                 !.body = "Error forwarding request"]
                 ELSE [r1 EXCEPT !.pc = "awaitOrigin", !.originFetches = @ + 1,
                                 !.origin = "pending",
                                 !.target = rewrite(RequestUrl(r), originURL)]

\* new Response('Access Denied', {status: 403, ...}) (lines 330-338)
AccessDenied(r) ==
    [r EXCEPT !.pc = "done", !.status = 403, !.body = "Access Denied",
              !.blocked = TRUE, !.reason = r.det.sourceType]

\* this.config.blockingTimeout || 2000
timeoutMs(cfg) ==
    IF cfg.blockingTimeout = 0 THEN DefaultBlockingTimeout ELSE cfg.blockingTimeout

\* mutant: the credential is not consulted before logging
handleDetection_NoKeyCheck(r) ==
    IF r.det.sourceType # "none"
    THEN IF r.det.shouldBlock
         THEN LET logged == [r EXCEPT !.logCalls = @ + 1, !.logStatus = 403,
                                      !.log = "pending", !.timer = "armed",
                                      !.race = "pending",
                                      !.timeoutMs = timeoutMs(config)]
              IN  IF config.awaitBlockedLogging # "false"
                  THEN [logged EXCEPT !.pc = "awaitLog", !.logVia = "await"]
                  ELSE AccessDenied([logged EXCEPT !.logVia = "waitUntil", !.logTask = "pending"])
         ELSE forwardToOrigin([r EXCEPT !.logCalls = @ + 1, !.logStatus = 200,
                                        !.log = "pending", !.logVia = "waitUntil", !.logTask = "pending"])
    ELSE forwardToOrigin(r)

\* mutant: the logging call of an allowed request is awaited before forwarding
handleDetection_AwaitAllowed(r) ==
    IF r.det.sourceType # "none" /\ hasApiKey(config)
    THEN IF r.det.shouldBlock
         THEN LET logged == [r EXCEPT !.logCalls = @ + 1, !.logStatus = 403,
                                      !.log = "pending", !.timer = "armed",
                                      !.race = "pending",
                                      !.timeoutMs = timeoutMs(config)]
              IN  IF config.awaitBlockedLogging # "false"
                  THEN [logged EXCEPT !.pc = "awaitLog", !.logVia = "await"]
                  ELSE AccessDenied([logged EXCEPT !.logVia = "waitUntil", !.logTask = "pending"])
         ELSE [r EXCEPT !.logCalls = @ + 1, !.logStatus = 200,
                        !.log = "pending", !.logVia = "await", !.pc = "awaitLog"]
    ELSE forwardToOrigin(r)

\* mutant: the blocking wait is taken only when awaitBlockedLogging is true
handleDetection_AwaitOnlyTrue(r) ==
    IF r.det.sourceType # "none" /\ hasApiKey(config)
    THEN IF r.det.shouldBlock
         THEN LET logged == [r EXCEPT !.logCalls = @ + 1, !.logStatus = 403,
                                      !.log = "pending", !.timer = "armed",
                                      !.race = "pending",
                                      !.timeoutMs = timeoutMs(config)]
              IN  IF config.awaitBlockedLogging = "true"
                  THEN [logged EXCEPT !.pc = "awaitLog", !.logVia = "await"]
                  ELSE AccessDenied([logged EXCEPT !.logVia = "waitUntil", !.logTask = "pending"])
         ELSE forwardToOrigin([r EXCEPT !.logCalls = @ + 1, !.logStatus = 200,
                                        !.log = "pending", !.logVia = "waitUntil", !.logTask = "pending"])
    ELSE forwardToOrigin(r)

\* the branch on the detection result (lines 283-375)
handleDetection(r) ==
    IF r.det.sourceType # "none" /\ hasApiKey(config)
    THEN IF r.det.shouldBlock
         THEN LET logged == [r EXCEPT !.logCalls = @ + 1, !.logStatus = 403,
                                      !.log = "pending", !.timer = "armed",
                                      !.race = "pending",
                                      !.timeoutMs = timeoutMs(config)]
              IN  IF config.awaitBlockedLogging # "false"
                  THEN [logged EXCEPT !.pc = "awaitLog", !.logVia = "await"]
                  ELSE AccessDenied([logged EXCEPT !.logVia = "waitUntil", !.logTask = "pending"])
         ELSE forwardToOrigin([r EXCEPT !.logCalls = @ + 1, !.logStatus = 200,
                                        !.log = "pending", !.logVia = "waitUntil", !.logTask = "pending"])
    ELSE forwardToOrigin(r)

\* mutant: handleRequest awaits the refresh it started before it goes on
BeginRequest_AwaitSync(fresh, scheme, host, path) ==
    LET initialized == IF fresh THEN FALSE ELSE patternSyncInitialized
        startsSync == ~initialized /\ hasApiKey(config)
    IN  /\ req.pc = "idle"
        /\ handled < MaxRequests
        /\ handled' = handled + 1
        /\ patternSyncInitialized' = TRUE
        /\ IF startsSync
           THEN /\ EnterSync(handled + 1, config)
                /\ refreshTasks' = [refreshTasks EXCEPT ![handled + 1] =
                       IF calls'[handled + 1].exit = "localHit" THEN "fulfilled"
                       ELSE "pending"]
           ELSE UNCHANGED <<syncVars, refreshTasks>>
        /\ req' = [IdleReq EXCEPT !.pc = IF startsSync THEN "awaitSync" ELSE "awaitInit",
                                  !.scheme = scheme, !.host = host, !.path = path,
                                  !.syncRegistered = startsSync]
        /\ UNCHANGED <<config, env, lastIndex>>

\* mutant: the refresh is started only for a request that the hostname gate
\* and the path gate admit
BeginRequest_SyncAfterAdmission(fresh, scheme, host, path) ==
    LET initialized == IF fresh THEN FALSE ELSE patternSyncInitialized
        skipped == OriginUrl # <<>> /\ ~shouldProcessHostname(toLowerCase(host), OriginUrl)
        ex == shouldExcludePath(path, config.excludePaths, lastIndex)
        admitted == ~skipped /\ ~ex.excluded
        startsSync == ~initialized /\ hasApiKey(config) /\ admitted
    IN  /\ req.pc = "idle"
        /\ handled < MaxRequests
        /\ handled' = handled + 1
        /\ patternSyncInitialized' = (patternSyncInitialized \/ admitted)
        /\ IF startsSync
           THEN /\ EnterSync(handled + 1, config)
                /\ refreshTasks' = [refreshTasks EXCEPT ![handled + 1] =
                       IF calls'[handled + 1].exit = "localHit" THEN "fulfilled"
                       ELSE "pending"]
           ELSE UNCHANGED <<syncVars, refreshTasks>>
        /\ req' = [IdleReq EXCEPT !.pc = "awaitInit",
                                  !.scheme = scheme, !.host = host, !.path = path,
                                  !.syncRegistered = startsSync]
        /\ UNCHANGED <<config, env, lastIndex>>

(***************************************************************************)
(* handleRequest from the call to its first await (lines 227-233), with    *)
(* initializePatternSync (lines 205-222), which starts the refresh and     *)
(* hands it to ctx.waitUntil.  With fresh, the request arrives through a   *)
(* fetch handler that constructs a new SpyglassesWorker for it.  A refresh *)
(* that returned at the local freshness check has settled before .catch is *)
(* called, so its reaction runs before handleRequest resumes; a refresh    *)
(* that awaited a settled marker (line 51) returns in a later microtask.   *)
(***************************************************************************)
BeginRequest(fresh, scheme, host, path) ==
    LET initialized == IF fresh THEN FALSE ELSE patternSyncInitialized
        startsSync == ~initialized /\ hasApiKey(config)
    IN  /\ req.pc = "idle"
        /\ handled < MaxRequests
        /\ handled' = handled + 1
        /\ patternSyncInitialized' = TRUE
        /\ IF startsSync
           THEN /\ EnterSync(handled + 1, config)
                /\ refreshTasks' = [refreshTasks EXCEPT ![handled + 1] =
                       IF calls'[handled + 1].exit = "localHit" THEN "fulfilled"
                       ELSE "pending"]
           ELSE UNCHANGED <<syncVars, refreshTasks>>
        /\ req' = [IdleReq EXCEPT !.pc = "awaitInit",
                                  !.scheme = scheme, !.host = host, !.path = path,
                                  !.syncRegistered = startsSync]
        /\ UNCHANGED <<config, env, lastIndex>>

(***************************************************************************)
(* handleRequest resumes after `await this.initializePatternSync(ctx)`     *)
(* and runs to its next await (lines 235-375): the hostname gate, the path *)
(* gate, detect (which returns det), logging and forwarding.  The .catch   *)
(* reaction of a refresh that returned meanwhile (lines 215-219) follows.  *)
(***************************************************************************)
ContinueRequest(det) ==
    LET r0 == [req EXCEPT !.det = det]
        hostname == toLowerCase(req.host)
        ex == shouldExcludePath(req.path, config.excludePaths, lastIndex)
    IN  /\ req.pc = "awaitInit"
        /\ IF OriginUrl # <<>> /\ ~shouldProcessHostname(hostname, OriginUrl)
           THEN /\ req' = forwardToOrigin([r0 EXCEPT !.gate = "hostname"])
                /\ UNCHANGED lastIndex
           ELSE /\ lastIndex' = ex.lastIndex
                /\ IF ex.excluded
                   THEN req' = forwardToOrigin([r0 EXCEPT !.gate = "path"])
                   ELSE req' = handleDetection([r0 EXCEPT !.gate = "admitted",
                                                          !.detectCalls = @ + 1])
        /\ UNCHANGED <<syncVars, config, env, patternSyncInitialized, handled>>
        /\ refreshTasks' = SettleRefresh(refreshTasks)

\* mutant: a rejected logging call is not caught by logBlockedRequest, so the
\* awaiting handleRequest fails and the runtime answers 500
LogSettle_Uncaught(ok) ==
    /\ req.log = "pending"
    /\ LET r1 == [req EXCEPT !.log = IF ok THEN "fulfilled" ELSE "rejected",
                              !.race = IF @ # "pending" THEN @
                                       ELSE IF ok THEN "fulfilled" ELSE "rejected",
                              !.logTask = IF @ # "pending" THEN @
                                          ELSE IF ok \/ req.race = "none" THEN "fulfilled"
                                          ELSE "rejected"]
       IN  req' = IF req.pc = "awaitLog"
                  THEN IF ok THEN AccessDenied(r1)
                       ELSE [r1 EXCEPT !.pc = "done", !.status = 500]
                  ELSE r1
    /\ UNCHANGED <<syncVars, config, env, patternSyncInitialized, lastIndex, handled, refreshTasks>>

\* the promise of spyglasses.logRequest settles (lines 297-320, 359-371)
LogSettle(ok) ==
    /\ req.log = "pending"
    /\ LET r1 == [req EXCEPT !.log = IF ok THEN "fulfilled" ELSE "rejected",
                              !.race = IF @ # "pending" THEN @
                                       ELSE IF ok THEN "fulfilled" ELSE "rejected",
                              !.logTask = IF @ = "pending" THEN "fulfilled" ELSE @]
       IN  req' = IF req.pc = "awaitLog" THEN AccessDenied(r1) ELSE r1
    /\ UNCHANGED <<syncVars, config, env, patternSyncInitialized, lastIndex, handled, refreshTasks>>

\* mutant: the timer is not part of the race, the wait ends with the log only
TimerFire_NoRace ==
    /\ req.timer = "armed"
    /\ req' = [req EXCEPT !.timer = "fired"]
    /\ UNCHANGED <<syncVars, config, env, patternSyncInitialized, lastIndex, handled, refreshTasks>>

\* mutant: the rejection of the timeout promise is not caught, so the
\* awaiting handleRequest fails and the runtime answers 500
TimerFire_Uncaught ==
    /\ req.timer = "armed"
    /\ LET r1 == [req EXCEPT !.timer = "fired",
                              !.race = IF @ = "pending" THEN "rejected" ELSE @,
                              !.logTask = IF @ = "pending" THEN "rejected" ELSE @]
       IN  req' = IF req.pc = "awaitLog"
                  THEN [r1 EXCEPT !.pc = "done", !.status = 500]
                  ELSE r1
    /\ UNCHANGED <<syncVars, config, env, patternSyncInitialized, lastIndex, handled, refreshTasks>>

\* the setTimeout of logBlockedRequest fires (lines 293-295)
TimerFire ==
    /\ req.timer = "armed"
    /\ LET r1 == [req EXCEPT !.timer = "fired",
                              !.race = IF @ = "pending" THEN "rejected" ELSE @,
                              !.logTask = IF @ = "pending" THEN "fulfilled" ELSE @]
       IN  req' = IF req.pc = "awaitLog" THEN AccessDenied(r1) ELSE r1
    /\ UNCHANGED <<syncVars, config, env, patternSyncInitialized, lastIndex, handled, refreshTasks>>

\* mutant: a failed origin fetch is retried once
OriginSettle_Retry(outcome, headers) ==
    /\ req.pc = "awaitOrigin"
    /\ req' = IF outcome = 0
              THEN IF req.originFetches < 2
                   THEN [req EXCEPT !.originFetches = @ + 1]
                   ELSE [req EXCEPT !.pc = "done", !.origin = "failed", !.status = 502,
                                    !.body = "Error forwarding request"]
              ELSE [req EXCEPT !.pc = "done", !.origin = "responded",
                               !.originStatus = outcome, !.originHeaders = headers,
                               !.status = outcome, !.headers = headers,
                               !.body = "origin", !.processed = TRUE]
    /\ UNCHANGED <<syncVars, config, env, patternSyncInitialized, lastIndex, handled, refreshTasks>>

\* mutant: the returned Response is built from the body alone, without the
\* status and the headers of the origin's response
OriginSettle_BodyOnly(outcome, headers) ==
    /\ req.pc = "awaitOrigin"
    /\ req' = IF outcome = 0
              THEN [req EXCEPT !.pc = "done", !.origin = "failed", !.status = 502,
                               !.body = "Error forwarding request"]
              ELSE [req EXCEPT !.pc = "done", !.origin = "responded",
                               !.originStatus = outcome, !.originHeaders = headers,
                               !.status = 200, !.headers = {},
                               !.body = "origin", !.processed = TRUE]
    /\ UNCHANGED <<syncVars, config, env, patternSyncInitialized, lastIndex, handled, refreshTasks>>

\* the origin fetch settles (lines 428-445): 0 is a transport failure
OriginSettle(outcome, headers) ==
    /\ req.pc = "awaitOrigin"
    /\ req' = IF outcome = 0
              THEN [req EXCEPT !.pc = "done", !.origin = "failed", !.status = 502,
                               !.body = "Error forwarding request"]
              ELSE [req EXCEPT !.pc = "done", !.origin = "responded",
                               !.originStatus = outcome, !.originHeaders = headers,
                               !.status = outcome, !.headers = headers,
                               !.body = "origin", !.processed = TRUE]
    /\ UNCHANGED <<syncVars, config, env, patternSyncInitialized, lastIndex, handled, refreshTasks>>

\* the response has been returned to the runtime; the worker takes the next request
Respond ==
    /\ req.pc = "done"
    /\ req' = IdleReq
    /\ UNCHANGED <<syncVars, config, env, patternSyncInitialized, lastIndex, handled, refreshTasks>>

(***************************************************************************)
(* Specifications.  SpecSync: syncPatterns calls of one isolate, with time *)
(* passing.  SpecCalls: the same without calls of _resetPatternCache.      *)
(* SpecTenants: SpecSync with workers of two credentials.                  *)
(* SpecReq: requests through handleRequest of one worker, with the refresh *)
(* that its first request starts.  SpecFetch: requests through a fetch     *)
(* handler that constructs a worker for every request.  SpecWorkers: the   *)
(* same with a handler of the embedding site and its configuration.        *)
(***************************************************************************)
InitShared ==
    /\ clock = MsPerSecond
    /\ lastPatternSyncTime = 0
    /\ patternSyncPromise = 0
    /\ calls = [c \in CallIds |-> IdleCall]
    /\ promises = [c \in CallIds |-> "none"]
    /\ patternSyncInitialized = FALSE
    /\ req = IdleReq
    /\ handled = 0
    /\ refreshTasks = [c \in CallIds |-> "none"]

InitSync ==
    /\ InitShared
    /\ cacheStore \in InitialRecords
    /\ config \in SyncConfigs
    /\ env = <<>>
    /\ lastIndex = <<>>

\* the syncPatterns calls of an isolate in which the test helper
\* _resetPatternCache is not called
NextCalls ==
    \/ \E c \in CallIds : StartCall(c)
    \/ \E c \in CallIds, ok \in BOOLEAN : CacheMatchSettle(c, ok)
    \/ \E c \in CallIds, ok \in BOOLEAN : CacheJsonSettle(c, ok)
    \/ \E c \in CallIds, o \in FetchOutcomes : FetchSettle(c, o)
    \/ \E c \in CallIds, ok \in BOOLEAN : CachePutSettle(c, ok)
    \/ Tick

SpecCalls == InitSync /\ [][NextCalls]_vars

\* the same with calls of _resetPatternCache at any time
NextSync ==
    \/ \E c \in CallIds : StartCall(c)
    \/ \E c \in CallIds, ok \in BOOLEAN : CacheMatchSettle(c, ok)
    \/ \E c \in CallIds, ok \in BOOLEAN : CacheJsonSettle(c, ok)
    \/ \E c \in CallIds, o \in FetchOutcomes : FetchSettle(c, o)
    \/ \E c \in CallIds, ok \in BOOLEAN : CachePutSettle(c, ok)
    \/ resetPatternCache
    \/ Tick

SpecSync == InitSync /\ [][NextSync]_vars

\* workers constructed with different credentials in one isolate
InitTenants ==
    /\ InitShared
    /\ cacheStore = NoRecord
    /\ config \in {cfg \in SyncConfigs : cfg.apiKey = Key1 /\ cfg.cacheTime = 1}
    /\ env = <<>>
    /\ lastIndex = <<>>

NextTenants ==
    \/ \E c \in CallIds, k \in Credentials : StartCallAs(c, k)
    \/ \E c \in CallIds, ok \in BOOLEAN : CacheMatchSettle(c, ok)
    \/ \E c \in CallIds, ok \in BOOLEAN : CacheJsonSettle(c, ok)
    \/ \E c \in CallIds, o \in FetchOutcomes : FetchSettle(c, o)
    \/ \E c \in CallIds, ok \in BOOLEAN : CachePutSettle(c, ok)
    \/ resetPatternCache
    \/ Tick

SpecTenants == InitTenants /\ [][NextTenants]_vars

InitReq ==
    /\ InitShared
    /\ cacheStore \in {NoRecord, Record(MsPerSecond, TRUE)}
    /\ \E o \in Origins :
           /\ config \in {cfg \in ReqConfigs : cfg.originUrl = o[1]}
           /\ env = o[2]
    /\ lastIndex = [k \in DOMAIN config.excludePaths |-> 0]

NextReq ==
    \/ \E u \in InboundUrls : BeginRequest(FALSE, u.scheme, u.host, u.path)
    \/ \E det \in Detections : ContinueRequest(det)
    \/ Respond
    \/ \E ok \in BOOLEAN : LogSettle(ok)
    \/ TimerFire
    \/ \E o \in OriginResponses \cup {TransportFailure} :
           OriginSettle(o.status, o.headers)
    \/ \E c \in CallIds, ok \in BOOLEAN : CacheMatchSettle(c, ok)
    \/ \E c \in CallIds, ok \in BOOLEAN : CacheJsonSettle(c, ok)
    \/ \E c \in CallIds, o \in FetchOutcomes : FetchSettle(c, o)
    \/ \E c \in CallIds, ok \in BOOLEAN : CachePutSettle(c, ok)
    \/ resetPatternCache

SpecReq == InitReq /\ [][NextReq]_vars

\* defaultConfig.excludePaths of index.ts; a path is a sequence of "/" and
\* of segments
DefaultExcludePaths ==
    << Str(<<"/", "favicon.ico">>), Str(<<"/", "robots.txt">>),
       Str(<<"/", "sitemap.xml">>), Str(<<"/", "_next", "/">>),
       Str(<<"/", "api", "/">>), Str(<<"/", "admin", "/">>),
       Str(<<"/", "wp-admin", "/">>), Str(<<"/", ".well-known", "/">>) >>

\* the configuration the fetch handler of index.ts builds from env:
\* defaultConfig, SPYGLASSES_API_KEY and SPYGLASSES_CACHE_TTL (or 86400)
FetchConfigs ==
    [apiKey : ApiKeys, cacheTime : {1, IndexCacheTime}, originUrl : {<<>>},
     excludePaths : {DefaultExcludePaths}, blockingTimeout : {0},
     awaitBlockedLogging : {"unset"}]

\* the requests of the fetch handler: the host is the one env.ORIGIN_URL
\* names; a page, a path the default rules exclude, and a path under /api/
FetchPaths == {<<"/">>, <<"/", "favicon.ico">>, <<"/", "api", "/", "a">>}
FetchUrls == [scheme : {"https:"}, host : {<<"a">>}, path : FetchPaths]

InitFetch ==
    /\ InitShared
    /\ cacheStore = NoRecord
    /\ config \in FetchConfigs
    /\ env \in {<<>>, <<"a">>}
    /\ lastIndex = [k \in DOMAIN config.excludePaths |-> 0]

\* every request is handled by a worker constructed for it
NextFetch ==
    \/ \E u \in FetchUrls : BeginRequest(TRUE, u.scheme, u.host, u.path)
    \/ \E det \in Detections : ContinueRequest(det)
    \/ Respond
    \/ \E ok \in BOOLEAN : LogSettle(ok)
    \/ TimerFire
    \/ \E o \in OriginResponses \cup {TransportFailure} :
           OriginSettle(o.status, o.headers)
    \/ \E c \in CallIds, ok \in BOOLEAN : CacheMatchSettle(c, ok)
    \/ \E c \in CallIds, ok \in BOOLEAN : CacheJsonSettle(c, ok)
    \/ \E c \in CallIds, o \in FetchOutcomes : FetchSettle(c, o)
    \/ \E c \in CallIds, ok \in BOOLEAN : CachePutSettle(c, ok)
    \/ resetPatternCache

SpecFetch == InitFetch /\ [][NextFetch]_vars

\* a fetch handler that calls createSpyglassesWorker(config) for every
\* request, with a configuration that sets or leaves out awaitBlockedLogging
WorkerConfigs ==
    [apiKey : {Key1}, cacheTime : {1}, originUrl : {<<>>}, excludePaths : {<<>>},
     blockingTimeout : {0}, awaitBlockedLogging : {"unset", "false"}]

InitWorkers ==
    /\ InitShared
    /\ cacheStore = NoRecord
    /\ config \in WorkerConfigs
    /\ env = <<"a">>
    /\ lastIndex = <<>>

NextWorkers ==
    \/ BeginRequest(TRUE, "https:", <<"a">>, <<"/">>)
    \/ \E det \in Detections : ContinueRequest(det)
    \/ Respond
    \/ \E ok \in BOOLEAN : LogSettle(ok)
    \/ TimerFire
    \/ \E o \in OriginResponses \cup {TransportFailure} :
           OriginSettle(o.status, o.headers)
    \/ \E c \in CallIds, ok \in BOOLEAN : CacheMatchSettle(c, ok)
    \/ \E c \in CallIds, ok \in BOOLEAN : CacheJsonSettle(c, ok)
    \/ \E c \in CallIds, o \in FetchOutcomes : FetchSettle(c, o)
    \/ \E c \in CallIds, ok \in BOOLEAN : CachePutSettle(c, ok)
    \/ resetPatternCache

SpecWorkers == InitWorkers /\ [][NextWorkers]_vars

\* the workers that can wait for a logging call: a credential is configured
\* and no exclusion rule keeps the request from detect
InitReqFair ==
    /\ InitReq
    /\ hasApiKey(config)
    /\ config.excludePaths = <<>>

\* a timer set with setTimeout fires eventually
SpecReqFair == InitReqFair /\ [][NextReq]_vars /\ WF_vars(TimerFire)

(***************************************************************************)
(* Properties of the pattern synchronisation (SpecSync).                   *)
(***************************************************************************)
Started == {c \in CallIds : calls[c].pc # "idle"}

RECURSIVE RemoteFetches(_)
RemoteFetches(S) ==
    IF S = {} THEN 0
    ELSE LET c == CHOOSE x \in S : TRUE
         IN  calls[c].fetches + RemoteFetches(S \ {c})

\* every call made so far was made before any call had completed, with a
\* credential and a stale local timestamp, all of them have completed, and the
\* distributed tier neither failed nor offered a fresh record
ConcurrentBatchDone ==
    /\ Started # {}
    /\ hasApiKey(config)
    /\ \E last \in Started :
          /\ \A c \in Started : c <= last
          /\ calls[last].concurrent
          /\ calls[last].staleAtStart
    /\ \A c \in Started :
          /\ calls[c].pc = "done"
          /\ calls[c].exit \notin {"cacheHit", "cacheError"}

\* C1: syncPatterns calls (credential present, local timestamp stale) that are
\* all started before the first of them completes issue exactly one remote
\* fetch in total, under every interleaving of their suspension points.
C1_SingleFlight == ConcurrentBatchDone => RemoteFetches(Started) = 1

\* C2: a syncPatterns call made less than cacheTimeMs after a completed refresh
\* whose remote fetch returned a dataset returns without a remote fetch and
\* without reading the distributed cache.
C2_LocalFreshness ==
    \A c \in CallIds : calls[c].freshDue => calls[c].reads = 0 /\ calls[c].fetches = 0

\* C3: in a refresh that reads the distributed tier, a record of age
\* now - timestamp < TTL leads to no remote fetch in that refresh, and a record
\* of age >= TTL, or no record, leads to exactly one.
C3_DistributedFreshness ==
    \A c \in CallIds :
        calls[c].matched = "read" =>
            IF /\ calls[c].record.present
               /\ calls[c].now - calls[c].record.timestamp < cacheTimeMs(config)
            THEN calls[c].fetches = 0
            ELSE calls[c].fetches = 1

\* one refresh accepted a fresh record, another found a stale one and fetched
C3_Witness ==
    \E c, d \in CallIds :
        /\ calls[c].exit = "cacheHit" /\ calls[c].fetches = 0
        /\ calls[d].matched = "read" /\ calls[d].record.present
        /\ calls[d].now - calls[d].record.timestamp >= cacheTimeMs(config)
        /\ calls[d].fetches = 1 /\ calls[d].pc = "done"

(***************************************************************************)
(* Properties of the request pipeline (SpecReq).                           *)
(***************************************************************************)
\* C4: for every configuration, an admitted request (hostname accepted, path
\* not excluded) for which detect returns shouldBlock = true gets status 403
\* and no origin fetch is issued for it.
C4_BlockShortCircuit ==
    (req.gate = "admitted" /\ req.det.shouldBlock) =>
        /\ req.originFetches = 0
        /\ req.pc = "done" => req.status = 403

\* C5: a blocked request (one whose logging call is made with status 403) is
\* answered with 403 whether the logging call is fulfilled, is rejected or
\* loses against the timer, awaited or not.
C5_BlockedStatus ==
    (req.pc = "done" /\ req.logCalls = 1 /\ req.logStatus = 403) => req.status = 403

\* the awaited logging call of a blocked request was rejected
C5_Witness ==
    /\ req.pc = "done" /\ req.status = 403
    /\ req.logVia = "await" /\ req.log = "rejected"

\* C6: with the blocking wait, the 403 is returned no later than the firing
\* of the timeout timer, and it is eventually returned even if the logging
\* call never settles.
C6_BoundedWait ==
    /\ []((req.logVia = "await" /\ req.timer = "fired") =>
              (req.pc = "done" /\ req.status = 403))
    /\ (req.pc = "awaitLog") ~> (req.pc = "done" /\ req.status = 403)

\* the timer fired while the awaited logging call was still pending
C6_Witness ==
    /\ req.logVia = "await" /\ req.timer = "fired" /\ req.log = "pending"
    /\ req.pc = "done" /\ req.status = 403

\* a rule matches a path: a string by containment, a RegExp by a search
\* anywhere in the path
RuleMatches(rule, path) ==
    \E i \in 0..Len(path) :
        OccursAt(rule.text, path, i) /\ (rule.anchored => i = 0)

PathMatchesSomeRule(path) ==
    \E k \in DOMAIN config.excludePaths : RuleMatches(config.excludePaths[k], path)

\* C7: for a request whose path matches at least one exclusion rule, detect
\* is never invoked and the request is handed to the forwarder.
C7_PathExclusion ==
    (req.gate # "none" /\ PathMatchesSomeRule(req.path)) =>
        req.detectCalls = 0 /\ req.forwardCalls = 1

\* the configured origin authority parses and its hostname is not the one of
\* the request
HostnameDiffers ==
    /\ OriginUrl # <<>>
    /\ ParseURL(normalizeOriginUrl(OriginUrl)).ok
    /\ ParseURL(normalizeOriginUrl(OriginUrl)).hostname # toLowerCase(req.host)

\* C8: for a request whose hostname differs from the hostname of the
\* configured origin authority, detect and logRequest are not invoked and the
\* origin fetch is still issued.
C8_HostnameGating ==
    (req.gate # "none" /\ HostnameDiffers) =>
        req.detectCalls = 0 /\ req.logCalls = 0 /\ req.originFetches = 1

\* a request for another hostname was answered by the origin
C8_Witness ==
    /\ req.pc = "done" /\ HostnameDiffers
    /\ req.origin = "responded" /\ req.status = 200 /\ req.detectCalls = 0

\* the request takes the block branch of handleRequest
TakesBlockBranch ==
    /\ req.gate = "admitted"
    /\ hasApiKey(config)
    /\ req.det.sourceType # "none"
    /\ req.det.shouldBlock

\* C9 as claimed: without an origin authority every request gets status 500,
\* whatever detect returns.
C9_Always500 ==
    (req.pc = "done" /\ OriginUrl = <<>>) => req.status = 500

\* C9 amended: without an origin authority every request that is not blocked
\* gets status 500 and no origin fetch; a blocked request still gets 403.
C9_NoOrigin500 ==
    (req.pc = "done" /\ OriginUrl = <<>>) =>
        /\ req.originFetches = 0
        /\ req.status = IF TakesBlockBranch THEN 403 ELSE 500

\* a detected request that is not blocked got 500 for the missing origin
C9_Witness ==
    /\ req.pc = "done" /\ OriginUrl = <<>> /\ req.status = 500
    /\ req.detectCalls = 1 /\ req.det.sourceType = "bot" /\ req.logCalls = 1

\* C10 as claimed: at most one origin fetch per request, and a 502 response
\* exactly when that forwarded call fails in transport.
C10_502IffTransportFailure ==
    /\ req.originFetches <= 1
    /\ req.pc = "done" => (req.status = 502 <=> req.origin = "failed")

\* the forwarder is reached with an origin authority that does not parse
UnparseableOrigin ==
    /\ req.forwardCalls = 1
    /\ OriginUrl # <<>>
    /\ ~ParseURL(normalizeOriginUrl(OriginUrl)).ok

\* C10 amended: at most one origin fetch per request and no retry; the
\* forwarder's own 502 ('Error forwarding request', no processed marker) is
\* returned exactly when the forwarding attempt fails: the one forwarded call
\* fails in transport, or the origin authority does not parse and no fetch is
\* issued.  A 502 sent by the origin is passed through.
C10_SingleAttempt ==
    /\ req.originFetches <= 1
    /\ req.origin = "failed" => req.pc = "done"
    /\ UnparseableOrigin => req.originFetches = 0
    /\ req.pc = "done" =>
          /\ (req.status = 502 /\ req.body = "Error forwarding request" /\ ~req.processed)
                 <=> (req.origin = "failed" \/ UnparseableOrigin)
          /\ req.origin = "responded" => req.processed

\* the one forwarded call failed in transport and 502 was returned
C10_Witness ==
    /\ req.pc = "done" /\ req.origin = "failed"
    /\ req.status = 502 /\ req.originFetches = 1

\* C11: when detect returns 'none' or no credential is configured, logRequest
\* is not called for the request, neither awaited nor as a background task.
C11_LoggingSkipped ==
    (req.gate # "none" /\ (req.det.sourceType = "none" \/ ~hasApiKey(config))) =>
        req.logCalls = 0 /\ req.logVia = "none" /\ req.log = "none"

\* an admitted request classified as bot was answered by the origin without a
\* logging call, because no credential is configured
C11_Witness ==
    /\ req.pc = "done" /\ req.gate = "admitted" /\ req.detectCalls = 1
    /\ req.det.sourceType = "bot" /\ ~hasApiKey(config)
    /\ req.logCalls = 0 /\ req.origin = "responded"

\* the request is admitted, detected and allowed, and a credential is present
AllowedDetected ==
    /\ req.gate = "admitted"
    /\ hasApiKey(config)
    /\ req.det.sourceType # "none"
    /\ ~req.det.shouldBlock

\* C12: for an allowed detected request exactly one logRequest call is made,
\* with status 200, handed to ctx.waitUntil; handleRequest never waits for it
\* (its settling changes neither where the request stands nor its status) and
\* the request is handed to the forwarder, which issues the origin fetch
\* whenever the origin authority parses.
C12_AllowedLogging ==
    /\ [](AllowedDetected =>
              /\ req.logCalls = 1 /\ req.logStatus = 200 /\ req.logVia = "waitUntil"
              /\ req.pc # "awaitLog"
              /\ req.forwardCalls = 1
              /\ (OriginUrl # <<>> /\ ParseURL(normalizeOriginUrl(OriginUrl)).ok)
                     => req.originFetches = 1)
    /\ [][(AllowedDetected /\ req.log = "pending"
              /\ req'.log \in {"fulfilled", "rejected"})
             => (req'.pc = req.pc /\ req'.status = req.status)]_vars

\* the origin's response was returned while the logging call was still pending
C12_Witness ==
    /\ AllowedDetected /\ req.pc = "done" /\ req.status = 200
    /\ req.log = "pending" /\ req.logVia = "waitUntil"

\* C13: in the block branch, unless awaitBlockedLogging is false the logging
\* call is awaited and the 403 is not returned before the call has settled or
\* the timer has fired; when it is false the call is handed to ctx.waitUntil
\* and the 403 is returned at once.
C13_BlockedLoggingMode ==
    TakesBlockBranch =>
        IF config.awaitBlockedLogging # "false"
        THEN /\ req.logVia = "await"
             /\ req.pc = "done" => (req.log # "pending" \/ req.timer = "fired")
        ELSE /\ req.logVia = "waitUntil"
             /\ req.pc = "done"

\* with awaitBlockedLogging unset the 403 was returned after the awaited
\* logging call was fulfilled, before the timer fired
C13_Witness ==
    /\ TakesBlockBranch /\ config.awaitBlockedLogging = "unset"
    /\ req.pc = "done" /\ req.status = 403
    /\ req.logVia = "await" /\ req.log = "fulfilled" /\ req.timer = "armed"

\* C14: with awaitBlockedLogging not set, the logging call of a blocked
\* request is handed to ctx.waitUntil and the 403 is returned without waiting.
C14_DefaultFireAndForget ==
    (TakesBlockBranch /\ config.awaitBlockedLogging = "unset") =>
        req.logVia = "waitUntil" /\ req.pc = "done"

\* C15: every 403 block response carries the blocked marker, the reason
\* header equal to the classification, and the processed marker.
C15_BlockMarkers ==
    (req.pc = "done" /\ TakesBlockBranch /\ req.status = 403) =>
        req.blocked /\ req.reason = req.det.sourceType /\ req.processed

\* C16: whenever the origin fetch returns a response, handleRequest returns
\* its status and its headers, with the processed marker added, for every
\* origin status.
C16_Passthrough ==
    req.origin = "responded" =>
        /\ req.pc = "done"
        /\ req.status = req.originStatus
        /\ req.headers = req.originHeaders
        /\ req.processed /\ ~req.blocked

\* a 502 of the origin was returned with the origin's header and the marker
C16_Witness ==
    /\ req.origin = "responded" /\ req.originStatus = 502
    /\ req.status = 502 /\ req.headers = {"cache-control"} /\ req.processed

\* C17: the target of the forwarded request has the scheme, the host and the
\* port of the origin authority, and the path of the inbound request.
C17_Rewrite ==
    req.originFetches = 1 =>
        LET originURL == ParseURL(normalizeOriginUrl(OriginUrl))
        IN  /\ req.target.protocol = originURL.protocol
            /\ req.target.hostname = originURL.hostname
            /\ EffectivePort(req.target) = EffectivePort(originURL)
            /\ req.target.path = req.path

\* C18: without a credential no syncPatterns call reads or writes the
\* distributed cache or calls spyglasses.syncPatterns, and the cached record
\* stays as it is.
C18_NoCredentialNoFetch ==
    /\ [](~hasApiKey(config) =>
              \A c \in CallIds :
                  /\ calls[c].reads = 0 /\ calls[c].fetches = 0 /\ calls[c].puts = 0
                  /\ promises[c] = "none"
                  /\ calls[c].pc \in {"idle", "done"})
    /\ [][~hasApiKey(config) => cacheStore' = cacheStore]_vars

\* every call that was made, at different times, left at the credential check
C18_Witness ==
    /\ ~hasApiKey(config)
    /\ \A c \in 1..MaxCalls : calls[c].pc = "done" /\ calls[c].exit = "noKey"
    /\ \E c, d \in 1..MaxCalls : calls[c].now # calls[d].now

\* the status the routing decision and the origin give the request
ExpectedStatus ==
    IF TakesBlockBranch THEN 403
    ELSE IF OriginUrl = <<>> THEN 500
    ELSE IF ~ParseURL(normalizeOriginUrl(OriginUrl)).ok THEN 502
    ELSE IF req.origin = "failed" THEN 502
    ELSE req.originStatus

\* C19: the status handleRequest returns is decided by the block/allow
\* decision, the origin authority and the origin's answer alone: it is the
\* same whether the remote pattern fetch, the cache read or write and the
\* logging call succeed, fail or time out, and handleRequest never fails.
C19_NonInterference ==
    /\ req.pc \in {"idle", "awaitInit", "awaitLog", "awaitOrigin", "done"}
    /\ req.pc = "done" => req.status = ExpectedStatus

\* a request was answered after its logging call was rejected and the remote
\* fetch or the cache read of the refresh had failed
C19_Witness ==
    /\ req.pc = "done" /\ req.status = 403 /\ req.log = "rejected"
    /\ \E c \in CallIds : calls[c].exit \in {"fetchFailed", "cacheError"}

\* the refresh this request registered has not completed
RefreshPending ==
    /\ req.syncRegistered
    /\ calls[handled].pc \in {"cacheMatch", "cacheJson", "fetching", "cachePut"}

\* C20: a request that registered the refresh does not wait for it: while the
\* refresh is pending the request waits for the settled promise of
\* initializePatternSync, for its logging call or for the origin, or is
\* answered, and no step of the refresh moves the request.
C20_RefreshNonBlocking ==
    /\ [](RefreshPending => req.pc \in {"awaitInit", "awaitLog", "awaitOrigin", "done"})
    /\ [][(req.pc # "idle" /\ calls' # calls) => req' = req]_vars

\* the response was returned while the cache read of the refresh was pending
C20_Witness ==
    /\ req.pc = "done" /\ req.syncRegistered
    /\ calls[handled].pc = "cacheMatch"
    /\ req.origin = "responded"

\* C21: on the first request handled with a credential, the pattern sync it
\* starts has completed before detect is invoked for that request.
C21_SyncBeforeDetect ==
    (req.syncRegistered /\ req.detectCalls = 1) => calls[handled].pc = "done"

\* the host characters of an origin authority, in lower case
AuthorityHost(authority) == toLowerCase(SelectSeq(authority, LAMBDA t : t \in HostChars))

\* no origin authority is configured, or the request hostname is the one the
\* authority names, compared without regard to case
HostnameAccepted ==
    \/ OriginUrl = <<>>
    \/ /\ AuthorityHost(OriginUrl) # <<>>
       /\ AuthorityHost(OriginUrl) = toLowerCase(req.host)

\* C22: for a request whose path matches no exclusion rule, detect is invoked
\* whenever no origin authority is configured or the request hostname equals
\* the hostname of the authority, compared case-insensitively, a scheme-less
\* authority being read as https.
C22_HostnameAccept ==
    (req.gate # "none" /\ HostnameAccepted /\ ~PathMatchesSomeRule(req.path)) =>
        req.detectCalls = 1 /\ req.gate = "admitted"

\* a request for host A was admitted under the scheme-less authority a
C22_Witness ==
    /\ req.pc = "done" /\ req.host = <<"A">> /\ OriginUrl = <<"a">>
    /\ req.detectCalls = 1 /\ req.origin = "responded"

\* C23: when the configured origin authority does not parse as a URL,
\* detection is skipped and the request is still forwarded to the origin
\* instead of being failed.
C23_UnparseableStillForwarded ==
    (req.pc = "done" /\ OriginUrl # <<>> /\ ~ParseURL(normalizeOriginUrl(OriginUrl)).ok) =>
        /\ req.detectCalls = 0
        /\ req.forwardCalls = 1
        /\ req.originFetches = 1
        /\ req.origin = "responded"

\* C24: an admitted request classified as ai_referrer is logged (when a
\* credential is present) and forwarded, and never receives the 403 block
\* response.
C24_AiReferrerNeverBlocked ==
    (req.gate = "admitted" /\ req.det.sourceType = "ai_referrer") =>
        /\ hasApiKey(config) => (req.logCalls = 1 /\ req.logStatus = 200)
        /\ req.forwardCalls = 1
        /\ req.status # 403 /\ ~req.blocked

\* C25: a syncPatterns call made with a credential (one is made for every
\* request that comes through the fetch handler) once the TTL has elapsed
\* since the last refresh whose remote fetch returned a dataset starts a new
\* refresh attempt: it does not leave at the local freshness check.
C25_TtlRefresh ==
    \A c \in CallIds :
        (hasApiKey(config) /\ calls[c].expired) => calls[c].exit # "localHit"

\* a remote fetch started by this process is running
FetchRunning == \E c \in CallIds : calls[c].pc = "fetching"

\* C26: the in-flight marker is present while a remote fetch is running: it
\* is never cleared while a remote fetch is still running.
C26_MarkerAccuracy == FetchRunning => patternSyncPromise # 0

\* no syncPatterns call is executing
NoCallExecuting == \A c \in CallIds : calls[c].pc \in {"idle", "done"}

\* C27: a call that set the in-flight marker clears it when it exits,
\* whatever the outcome of the remote fetch, so the marker is absent whenever
\* no refresh call is executing.
C27_MarkerRelease ==
    /\ [](NoCallExecuting => patternSyncPromise = 0)
    /\ [][\A c \in CallIds :
              (calls[c].fetches = 1 /\ calls[c].pc # "done" /\ calls'[c].pc = "done")
                  => patternSyncPromise' = 0]_vars

\* after a refresh whose remote fetch threw, a later call started a new fetch
C27_Witness ==
    /\ NoCallExecuting /\ patternSyncPromise = 0
    /\ \E c, d \in CallIds :
          /\ c < d
          /\ calls[c].exit = "fetchFailed"
          /\ ~calls[d].concurrent /\ calls[d].fetches = 1

\* C28: when the remote fetch throws or returns warning text, the local
\* timestamp keeps its value and the cache record is not written.
C28_FailedFetchUntouched ==
    [][\A c \in CallIds :
          (calls[c].pc = "fetching" /\ promises'[c] \in {"warning", "rejected"})
              => (lastPatternSyncTime' = lastPatternSyncTime /\ cacheStore' = cacheStore)]_vars

\* C29: when the remote fetch yields a dataset the refresh issues one cache
\* write of the record with timestamp now; when the write settles the local
\* timestamp is set to now and the call ends normally, whether the write
\* succeeded (the record is stored) or failed (the record is left as it was).
C29_SuccessfulFetch ==
    [][\A c \in CallIds :
          /\ (calls[c].pc = "fetching" /\ promises'[c] = "dataset")
                 => (calls'[c].pc = "cachePut" /\ calls'[c].puts = 1)
          /\ (calls[c].pc = "cachePut" /\ calls'[c].pc # "cachePut")
                 => /\ calls'[c].pc = "done" /\ calls'[c].exit = "synced"
                    /\ lastPatternSyncTime' = calls[c].now
                    /\ cacheStore' \in {Record(calls[c].now, TRUE), cacheStore}]_vars

\* a refresh whose cache write failed still set the local timestamp
C29_Witness ==
    \E c \in CallIds :
        /\ calls[c].exit = "synced" /\ calls[c].puts = 1
        /\ lastPatternSyncTime = calls[c].now
        /\ ~cacheStore.present

\* C30: every cache write belongs to a refresh whose own remote fetch
\* returned a dataset; the record changes only when such a write settles, and
\* a present record never becomes absent.
C30_WritesFollowFetch ==
    /\ [](\A c \in CallIds :
              /\ calls[c].puts <= 1
              /\ calls[c].puts = 1 => (calls[c].fetches = 1 /\ promises[c] = "dataset")
              /\ calls[c].exit \in {"localHit", "cacheHit", "warning", "fetchFailed",
                                     "cacheError", "noKey", "waited", "waitRejected"}
                     => calls[c].puts = 0)
    /\ [][cacheStore' # cacheStore =>
              \E c \in CallIds :
                  /\ calls[c].pc = "cachePut" /\ calls'[c].pc = "done"
                  /\ cacheStore' = Record(calls[c].now, TRUE)]_vars
    /\ [][cacheStore.present => cacheStore'.present]_vars

\* one refresh ended with a warning and wrote nothing, another stored its
\* dataset over the record that was there
C30_Witness ==
    \E c, d \in CallIds :
        /\ calls[c].exit = "warning" /\ calls[c].puts = 0
        /\ calls[d].exit = "synced" /\ calls[d].puts = 1
        /\ cacheStore = Record(calls[d].now, TRUE)

\* the step in which call c accepts a fresh record from the distributed tier
AcceptsRecord(c) == calls[c].pc = "cacheJson" /\ calls'[c].exit = "cacheHit"

\* the step starts or settles no spyglasses.syncPatterns(): the pattern set
\* of the detection capability is the one it was
PatternSetKept == promises' = promises /\ \A c \in CallIds : calls'[c].fetches = calls[c].fetches

\* C31 (as stated): a refresh that accepts a fresh record from the distributed
\* tier sets the local timestamp to its now and leaves the live pattern set
\* unchanged.
C31_CacheHitEffect ==
    [][\A c \in CallIds :
          AcceptsRecord(c) => lastPatternSyncTime' = calls[c].now /\ PatternSetKept]_vars

\* C31 (amended): a refresh that accepts a fresh record sets the local
\* timestamp to its now exactly when the record carries a patterns field and
\* leaves the timestamp alone otherwise; in both cases the live pattern set
\* and the record are unchanged.
C31_CacheHitEffectAmended ==
    [][\A c \in CallIds :
          AcceptsRecord(c) =>
              /\ lastPatternSyncTime' =
                     IF calls[c].record.patterns THEN calls[c].now
                     ELSE lastPatternSyncTime
              /\ PatternSetKept
              /\ cacheStore' = cacheStore]_vars

C31_Witness ==
    \E c \in CallIds :
        /\ calls[c].exit = "cacheHit" /\ ~calls[c].record.patterns
        /\ lastPatternSyncTime # calls[c].now

\* C32: request handling in one isolate starts the refresh at most once.
C32_OneTimeInit == Cardinality(Started) <= 1

\* C33: the first request handled by a worker with a credential has
\* registered the refresh with ctx.waitUntil and started it, whatever the
\* admission decision for that request; a registered refresh has started.
C33_SyncBeforeAdmission ==
    /\ (handled = 1 /\ req.pc # "idle" /\ hasApiKey(config)) =>
           req.syncRegistered /\ calls[1].pc # "idle"
    /\ (req.pc # "idle" /\ req.syncRegistered) => calls[handled].pc # "idle"

\* the first request was skipped for its hostname and the refresh was
\* registered and started
C33_Witness ==
    /\ handled = 1 /\ req.pc # "idle" /\ req.gate = "hostname"
    /\ req.detectCalls = 0
    /\ req.syncRegistered /\ calls[1].pc # "idle"

\* C34: evaluating the admission filter changes no state: the match position
\* of every configured pattern rule is after a request what it was before.
C34_AdmissionPure == [][lastIndex' = lastIndex]_vars

\* C35: a logging call that is still pending when handleRequest has returned
\* its response was handed to ctx.waitUntil.
C35_PendingLogRegistered ==
    (req.pc = "done" /\ req.logCalls = 1 /\ req.log = "pending") => req.logVia = "waitUntil"

\* C36: the local timestamp never decreases, and an overwritten cache record
\* never gets an earlier timestamp.
C36_Monotonic ==
    [][/\ lastPatternSyncTime' >= lastPatternSyncTime
       /\ (cacheStore.present /\ cacheStore'.present) =>
              cacheStore'.timestamp >= cacheStore.timestamp]_vars

\* C38: the responseStatus handed to logRequest is the status of the response
\* handleRequest returns.
C38_LoggedStatus ==
    (req.pc = "done" /\ req.logCalls = 1) => req.logStatus = req.status

\* C37: when the read of the distributed tier fails, the refresh ends there:
\* it has made no remote fetch, the local timestamp, the record and the
\* fetch promises are as before, the in-flight marker is null and the call
\* completes with the exit of the catch block.
C37_CacheReadFailure ==
    [][\A c \in CallIds :
          (calls[c].pc \in {"cacheMatch", "cacheJson"} /\ calls'[c].matched = "error") =>
              /\ calls'[c].pc = "done" /\ calls'[c].exit = "cacheError"
              /\ calls'[c].fetches = 0 /\ calls'[c].puts = 0
              /\ lastPatternSyncTime' = lastPatternSyncTime
              /\ cacheStore' = cacheStore
              /\ promises' = promises
              /\ patternSyncPromise' = 0]_vars

C37_Witness ==
    \E c \in CallIds :
        /\ calls[c].pc = "done" /\ calls[c].exit = "cacheError" /\ calls[c].fetches = 0
        /\ cacheStore.present /\ patternSyncPromise = 0

\* C40: no promise handed to ctx.waitUntil (the refresh, the log of a blocked
\* request, the log of an allowed request) is rejected.
C40_TasksNeverReject ==
    /\ \A c \in CallIds : refreshTasks[c] # "rejected"
    /\ req.logTask # "rejected"

\* a registered refresh that waited for a shared fetch which was rejected has
\* settled, in a state where the registered log of a blocked request has
\* settled after the logging call was rejected
C40_Witness ==
    /\ \E c \in CallIds : calls[c].exit = "waitRejected" /\ refreshTasks[c] = "fulfilled"
    /\ req.logVia = "waitUntil" /\ req.blocked
    /\ req.log = "rejected" /\ req.race = "rejected" /\ req.logTask = "fulfilled"

\* a refresh that set the local timestamp or left a record
Produced(d) == calls[d].pc = "done" /\ calls[d].exit \in {"synced", "warning", "cacheHit"}

\* C39: a refresh that leaves at the local freshness check follows a refresh
\* of the same credential that set the local timestamp, and a refresh that
\* accepts a record from the distributed tier reads a record that a refresh
\* of the same credential wrote.
C39_CredentialIsolation ==
    \A c \in CallIds :
        /\ calls[c].exit = "localHit" =>
               \E d \in CallIds : d # c /\ calls[d].key = calls[c].key /\ Produced(d)
        /\ calls[c].exit = "cacheHit" =>
               \E d \in CallIds :
                   /\ d # c /\ calls[d].key = calls[c].key
                   /\ calls[d].exit = "synced" /\ calls[d].now = calls[c].record.timestamp

TypeOK ==
    /\ clock \in MsPerSecond..MaxTime
    /\ lastPatternSyncTime \in 0..MaxTime
    /\ patternSyncPromise \in {0} \cup CallIds
    /\ req.status \in {0, 403, 500} \cup OriginStatuses
    /\ refreshTasks \in [CallIds -> {"none", "pending", "fulfilled", "rejected"}]
====
